---- MODULE Spec2Model ----
(***************************************************************************)
(* The library application of app.py and data_models.py: the Author and    *)
(* Book tables, the add_author / add_book / delete_book routes and the     *)
(* book listing of home() (fetch, filter, sort, cover lookup, view rows).  *)
(*                                                                         *)
(* Text that the code compares, lower-cases or searches (titles, author    *)
(* names, search strings, form numbers) is a sequence of character codes;  *)
(* text it only passes along or tests for equality is a TLA+ string.       *)
(***************************************************************************)
EXTENDS Integers, Sequences, FiniteSets, TLC

VARIABLES
    authors,      \* the author table: rows in primary key order
    books,        \* the book table: rows in primary key order
    everAuthors,  \* history: every author row as it was committed
    everBooks,    \* history: every book row as it was committed
    req,          \* the last request: route, method and arguments
    outcome,      \* how the last request ended
    filtered,     \* home(): the local `books` after the filter step
    sorted,       \* home(): the local `books` after the sort step
    calls,        \* home(): each requests.get issued, in order: the isbn
                  \* asked for and the response it got
    books_data    \* home(): the rows handed to render_template

vars == <<authors, books, everAuthors, everBooks, req, outcome,
          filtered, sorted, calls, books_data>>

------------------------------------------------------------------------------
(* Bounds of the model *)

MaxAuthors == 2
MaxBooks == 2

------------------------------------------------------------------------------
(* Text *)

\* "H" and "a": upper case sorts before lower case, so the case-sensitive
\* order (H < a) differs from the case-insensitive one (a < h).
Names == { <<72>>, <<97>> }

\* The books that are submitted: "E" with isbn 123 and "du" with isbn 456.
\* Again E < du by code point although d < e ignoring case.
Editions == { [title |-> <<69>>, isbn |-> "123"],
              [title |-> <<100, 117>>, isbn |-> "456"] }

\* publication_year as typed into the form: "1965"
YearForms == { <<49, 57, 54, 53>> }

\* author_id as typed into the form: "1", "2", and "9", the id of no author
AuthorIdForms == { <<49>>, <<50>>, <<57>> }

\* birth_date / date_of_death as typed into the form
DateForms == { "1920-10-08", "" }

\* request.args.get(...): None when the parameter is absent
None == [some |-> FALSE, val |-> <<>>]
Some(v) == [some |-> TRUE, val |-> v]

\* absent, "", "D" (in the title "du"), "h" (in the name "H")
SearchQueries == { None, Some(<<>>), Some(<<68>>), Some(<<104>>) }

NoDirective == [some |-> FALSE, val |-> ""]
SortDirectives == { NoDirective, [some |-> TRUE, val |-> "title"],
                    [some |-> TRUE, val |-> "author"],
                    [some |-> TRUE, val |-> "year"] }

\* str.lower() on one character (ASCII)
LowerChar(c) == IF c >= 65 /\ c <= 90 THEN c + 32 ELSE c

\* str.lower()
Lower(s) == [i \in 1..Len(s) |-> LowerChar(s[i])]

\* `sub in s` for strings
Contains(sub, s) ==
    \E i \in 0..(Len(s) - Len(sub)) : SubSeq(s, i + 1, i + Len(sub)) = sub

\* a < b for strings: code point order, a proper prefix is smaller
StrLess(a, b) ==
    \E i \in 1..(Len(b)) :
        /\ i <= Len(a) + 1
        /\ \A j \in 1..(i - 1) : a[j] = b[j]
        /\ \/ i = Len(a) + 1
           \/ (i <= Len(a) /\ a[i] < b[i])

\* truthiness of an optional string: None and "" are falsy
Truthy(opt) == opt.some /\ opt.val # <<>>

\* the integer a column of INTEGER affinity stores for a digit string
RECURSIVE IntOf(_)
IntOf(s) ==
    IF s = <<>> THEN 0
    ELSE 10 * IntOf(SubSeq(s, 1, Len(s) - 1)) + (s[Len(s)] - 48)

\* datetime.strptime(s, '%Y-%m-%d').date(): raises ValueError on other text
StrpDate(s) ==
    IF s = "1920-10-08"
    THEN [raised |-> FALSE, date |-> <<1920, 10, 8>>]
    ELSE [raised |-> TRUE, date |-> <<>>]

------------------------------------------------------------------------------
(* The tables (data_models.py) *)

\* the primary key SQLite gives the next row of a table: largest id + 1
NextId(table) == IF table = <<>> THEN 1 ELSE table[Len(table)].id + 1

\* add_author as it would be if it wrote over the newest author row
\* instead of inserting a row
AuthorAddAuthorOverwriting(table, name, birth_date, date_of_death) ==
    IF table = <<>>
    THEN <<[id |-> 1, name |-> name, birth_date |-> birth_date,
            date_of_death |-> date_of_death]>>
    ELSE [table EXCEPT ![Len(table)] =
            [id |-> table[Len(table)].id, name |-> name,
             birth_date |-> birth_date, date_of_death |-> date_of_death]]

\* Author.add_author: cls(...), session.add, session.commit
AuthorAddAuthor(table, name, birth_date, date_of_death) ==
    Append(table, [id |-> NextId(table), name |-> name,
                   birth_date |-> birth_date,
                   date_of_death |-> date_of_death])

\* Book.add_book: cls(...), session.add, session.commit.  The INTEGER
\* columns store the numbers the form's digit strings denote.  The
\* database is SQLite (app.py line 10) and nothing in the application
\* turns its foreign key enforcement on, so the ForeignKey of author_id
\* is declared but not checked: the row is stored whatever its author_id.
BookAddBook(table, title, isbn, publication_year, author_id) ==
    Append(table, [id |-> NextId(table), isbn |-> isbn, title |-> title,
                   publication_year |-> IntOf(publication_year),
                   author_id |-> IntOf(author_id)])

\* Book.delete_book: session.delete(self), session.commit
BookDeleteBook(table, book) ==
    SelectSeq(table, LAMBDA b : b.id # book.id)

\* Model.query.get(id): <<row>>, or <<>> for None
QueryGet(table, id) == SelectSeq(table, LAMBDA r : r.id = id)

\* the relationship Book.author: <<author row>>, or <<>> (None) when no
\* author row has the book's author_id
BookAuthor(book, authorTable) == QueryGet(authorTable, book.author_id)

------------------------------------------------------------------------------
(* The cover lookup: what requests.get and response.json() can give *)

Str(s) == [t |-> "str", v |-> s]
PyNone == [t |-> "NoneType", v |-> ""]
Dict(f) == [t |-> "dict", v |-> f]
List(s) == [t |-> "list", v |-> s]
EmptyDict == Dict([k \in {} |-> PyNone])

\* dict.get(key, default)
Get(d, key, default) == IF key \in DOMAIN d.v THEN d.v[key] ELSE default

Thumb == "http://books.google.com/t.jpg"

\* one volume record of the answer, given its volumeInfo
Volume(info) == Dict([kind |-> Str("books#volume"), volumeInfo |-> info])
Items(vols) == Dict([kind |-> Str("books#volumes"), items |-> List(vols)])

\* the answer has no "items" key (totalItems: 0)
NoItems == Dict([kind |-> Str("books#volumes")])
\* "items": []
EmptyItems == Items(<<>>)
\* a record whose volumeInfo has no imageLinks
NoImageLinks == Items(<<Volume(Dict([title |-> Str("t")]))>>)
\* imageLinks without a thumbnail
NoThumbnail ==
    Items(<<Volume(Dict([imageLinks |-> Dict([smallThumbnail |-> Str(Thumb)])]))>>)
\* imageLinks with a thumbnail URL
WithThumbnail ==
    Items(<<Volume(Dict([imageLinks |-> Dict([thumbnail |-> Str(Thumb)])]))>>)
\* "thumbnail": null
NullThumbnail ==
    Items(<<Volume(Dict([imageLinks |-> Dict([thumbnail |-> PyNone])]))>>)
\* "imageLinks": null
NullImageLinks == Items(<<Volume(Dict([imageLinks |-> PyNone]))>>)
\* a record without volumeInfo
NoVolumeInfo == Items(<<Dict([kind |-> Str("books#volume")])>>)

\* What one requests.get can do: raise (connection error, timeout), or
\* return a response with a status code and a body that response.json()
\* decodes or raises on.
Http(code, valid, data) ==
    [raised |-> FALSE, status_code |-> code, valid |-> valid, data |-> data]
TransportError ==
    [raised |-> TRUE, status_code |-> 0, valid |-> FALSE, data |-> PyNone]

\* the responses the model draws from: a lookup is answered Responses[r]
\* for some r in ResponseIds
Responses ==
    << TransportError, Http(404, TRUE, NoItems), Http(503, FALSE, PyNone),
       Http(200, FALSE, PyNone), Http(200, TRUE, NoItems),
       Http(200, TRUE, EmptyItems), Http(200, TRUE, NoImageLinks),
       Http(200, TRUE, NoThumbnail), Http(200, TRUE, WithThumbnail),
       Http(200, TRUE, NullThumbnail), Http(200, TRUE, NullImageLinks),
       Http(200, TRUE, NoVolumeInfo) >>
ResponseIds == 1..Len(Responses)

Raise == [raised |-> TRUE, value |-> PyNone]
Return(v) == [raised |-> FALSE, value |-> v]

\* home(), lines 124-132: the cover_image of one response
CoverImage(response) ==
    IF response.status_code = 200
    THEN IF ~response.valid
         THEN Raise                                   \* response.json()
         ELSE LET data == response.data IN
              IF "items" \in DOMAIN data.v /\ Len(data.v["items"].v) > 0
              THEN LET item == data.v["items"].v[1] IN
                   IF "volumeInfo" \notin DOMAIN item.v
                   THEN Raise                         \* KeyError
                   ELSE LET links == Get(item.v["volumeInfo"], "imageLinks",
                                         EmptyDict) IN
                        IF links.t # "dict"
                        THEN Raise                    \* AttributeError
                        ELSE Return(Get(links, "thumbnail", Str("")))
              ELSE Return(Str(""))
    ELSE Return(Str(""))

\* home(), lines 123-132: requests.get, then the cover_image
Lookup(r) ==
    IF Responses[r].raised THEN Raise ELSE CoverImage(Responses[r])

\* the outcome of the lookup answered Responses[r], for each r
Covers == [r \in ResponseIds |-> Lookup(r)]

\* a response whose lookup finds a cover
FoundId == CHOOSE r \in ResponseIds : Lookup(r) = Return(Str(Thumb))

------------------------------------------------------------------------------
(* home(): filter, sort, view rows *)

\* lines 104-105, the test of one book; `or` does not look at the author
\* when the title matches, and book.author.name raises when book.author
\* is None
TitleMatches(book, q) == Contains(Lower(q), Lower(book.title))
AuthorMatches(book, q, authorTable) ==
    /\ BookAuthor(book, authorTable) # <<>>
    /\ Contains(Lower(q), Lower(BookAuthor(book, authorTable)[1].name))
TestRaises(book, q, authorTable) ==
    ~TitleMatches(book, q) /\ BookAuthor(book, authorTable) = <<>>

\* lines 103-105: the list comprehension, or the list as it is when the
\* search string is falsy
FilterBooks(bs, search_query, authorTable) ==
    IF Truthy(search_query)
    THEN [raised |-> \E i \in 1..Len(bs) :
                        TestRaises(bs[i], search_query.val, authorTable),
          books |-> SelectSeq(bs, LAMBDA b :
                        \/ TitleMatches(b, search_query.val)
                        \/ AuthorMatches(b, search_query.val, authorTable))]
    ELSE [raised |-> FALSE, books |-> bs]

\* list.sort on (key, item) pairs: x goes behind every item whose key is
\* not greater, so equal keys keep their order
InsertByKey(x, s) ==
    LET n == Cardinality({i \in 1..Len(s) : ~StrLess(x.key, s[i].key)})
    IN  SubSeq(s, 1, n) \o <<x>> \o SubSeq(s, n + 1, Len(s))

RECURSIVE SortPairs(_)
SortPairs(s) ==
    IF s = <<>> THEN <<>>
    ELSE InsertByKey(s[Len(s)], SortPairs(SubSeq(s, 1, Len(s) - 1)))

\* list.sort(key=...): the keys are computed first, then the items are
\* put in key order
SortByKey(bs, keys) ==
    LET pairs == [i \in 1..Len(bs) |-> [key |-> keys[i], item |-> bs[i]]]
        done  == SortPairs(pairs)
    IN  [i \in 1..Len(bs) |-> done[i].item]

\* lines 108-111
SortBooks(bs, sort_by, authorTable) ==
    IF sort_by.some /\ sort_by.val = "title"
    THEN [raised |-> FALSE,
          books |-> SortByKey(bs, [i \in 1..Len(bs) |-> bs[i].title])]
    ELSE IF sort_by.some /\ sort_by.val = "author"
    THEN IF \E i \in 1..Len(bs) : BookAuthor(bs[i], authorTable) = <<>>
         THEN [raised |-> TRUE, books |-> bs]    \* None has no name
         ELSE [raised |-> FALSE,
               books |-> SortByKey(bs, [i \in 1..Len(bs) |->
                             BookAuthor(bs[i], authorTable)[1].name])]
    ELSE [raised |-> FALSE, books |-> bs]

\* lines 116-134: the view row of one book
BookInfo(book, authorTable, cover) ==
    [title |-> book.title, isbn |-> book.isbn,
     publication_year |-> book.publication_year,
     author_name |-> BookAuthor(book, authorTable),
     cover_image |-> cover]

------------------------------------------------------------------------------
(* The requests *)

Request(route, method, sort_by, search_query, book_id) ==
    [route |-> route, method |-> method, sort_by |-> sort_by,
     search_query |-> search_query, book_id |-> book_id]

\* req, outcome and the listing's locals describe one request: the next
\* request is taken up when the response to this one has been sent
Idle == outcome = "none"

NoListing ==
    /\ filtered' = <<>>
    /\ sorted' = <<>>
    /\ calls' = <<>>
    /\ books_data' = <<>>

Init ==
    /\ authors = <<>>
    /\ books = <<>>
    /\ everAuthors = {}
    /\ everBooks = {}
    /\ req = Request("none", "GET", NoDirective, None, 0)
    /\ outcome = "none"
    /\ filtered = <<>>
    /\ sorted = <<>>
    /\ calls = <<>>
    /\ books_data = <<>>

\* GET /add_author and GET /add_book render their forms
ShowForm(route) ==
    /\ Idle
    /\ req' = Request(route, "GET", NoDirective, None, 0)
    /\ outcome' = "rendered"
    /\ NoListing
    /\ UNCHANGED <<authors, books, everAuthors, everBooks>>

\* POST /add_author
AddAuthor(name, birth_date, date_of_death) ==
    /\ Idle
    /\ Len(authors) < MaxAuthors
    /\ req' = Request("add_author", "POST", NoDirective, None, 0)
    /\ NoListing
    /\ UNCHANGED <<books, everBooks>>
    /\ IF StrpDate(birth_date).raised \/ StrpDate(date_of_death).raised
       THEN /\ outcome' = "error"
            /\ UNCHANGED <<authors, everAuthors>>
       ELSE /\ authors' = AuthorAddAuthor(authors, name,
                              StrpDate(birth_date).date,
                              StrpDate(date_of_death).date)
            /\ everAuthors' = everAuthors \cup {authors'[Len(authors')]}
            /\ outcome' = "rendered"

\* POST /add_book
AddBook(title, isbn, publication_year, author_id) ==
    /\ Idle
    /\ Len(books) < MaxBooks
    /\ req' = Request("add_book", "POST", NoDirective, None, 0)
    /\ NoListing
    /\ books' = BookAddBook(books, title, isbn, publication_year, author_id)
    /\ everBooks' = everBooks \cup {books'[Len(books')]}
    /\ outcome' = "rendered"
    /\ UNCHANGED <<authors, everAuthors>>

\* the methods the route /book/<int:book_id>/delete is registered for
DeleteMethods == { "GET" }

Methods == { "GET", "POST" }

\* /book/<int:book_id>/delete.  A method the route is not registered for
\* is answered 405 before the view function runs.  redirect() takes no
\* `message` argument, so both calls of it raise TypeError.
DeleteBook(method, book_id) ==
    /\ Idle
    /\ req' = Request("delete_book", method, NoDirective, None, book_id)
    /\ NoListing
    /\ UNCHANGED <<authors, everAuthors, everBooks>>
    /\ IF method \notin DeleteMethods
       THEN /\ outcome' = "405"
            /\ UNCHANGED books
       ELSE LET book == QueryGet(books, book_id) IN
            IF book = <<>>
            THEN /\ outcome' = "error"
                 /\ UNCHANGED books
            ELSE IF method = "POST"
                 THEN /\ books' = BookDeleteBook(books, book[1])
                      /\ outcome' = "error"
                 ELSE /\ outcome' = "rendered"
                      /\ UNCHANGED books

\* What the lookups of one listing are answered: each finds a cover, but
\* for the k-th, which is answered Responses[r]; k = 0 when all find one.
Script(k, r) == [i \in 1..MaxBooks |-> IF i = k THEN r ELSE FoundId]

\* lines 114-134: the loop over the books that are left; it ends at the
\* first lookup that raises
Enrich(bs, authorTable, responses) ==
    LET n == Len(bs)
        got == [i \in 1..n |-> Covers[responses[i]]]
        bad == {i \in 1..n : got[i].raised}
        last == IF bad = {} THEN n
                ELSE CHOOSE i \in bad : \A j \in bad : i <= j
    IN  [raised |-> bad # {},
         calls |-> [i \in 1..last |->
                      [isbn |-> bs[i].isbn, response |-> responses[i]]],
         books_data |-> IF bad # {} THEN <<>>
                        ELSE [i \in 1..n |->
                                BookInfo(bs[i], authorTable, got[i].value)]]

\* GET /: the listing.  The i-th requests.get of this request is answered
\* Responses[Script(k, r)[i]].
Home(sort_by, search_query) ==
    LET f == FilterBooks(books, search_query, authors)
        s == SortBooks(f.books, sort_by, authors)
    IN
    /\ Idle
    /\ req' = Request("home", "GET", sort_by, search_query, 0)
    /\ UNCHANGED <<authors, books, everAuthors, everBooks>>
    /\ IF f.raised
       THEN /\ outcome' = "filter raised"
            /\ NoListing
       ELSE IF s.raised
       THEN /\ outcome' = "sort raised"
            /\ filtered' = f.books
            /\ sorted' = <<>>
            /\ calls' = <<>>
            /\ books_data' = <<>>
       ELSE \E k \in 0..Len(s.books), r \in ResponseIds :
               LET e == Enrich(s.books, authors, Script(k, r)) IN
               /\ k = 0 => r = FoundId
               /\ filtered' = f.books
               /\ sorted' = s.books
               /\ calls' = e.calls
               /\ books_data' = e.books_data
               /\ outcome' = IF e.raised THEN "lookup raised"
                                         ELSE "rendered"

\* the response is sent; the view function's locals are gone
Respond ==
    /\ ~Idle
    /\ req' = Request("none", "GET", NoDirective, None, 0)
    /\ outcome' = "none"
    /\ NoListing
    /\ UNCHANGED <<authors, books, everAuthors, everBooks>>

Next ==
    \/ \E route \in {"add_author", "add_book"} : ShowForm(route)
    \/ \E name \in Names, b \in DateForms, d \in DateForms :
          AddAuthor(name, b, d)
    \/ \E e \in Editions, y \in YearForms, a \in AuthorIdForms :
          AddBook(e.title, e.isbn, y, a)
    \/ \E m \in Methods, id \in 1..(MaxBooks + 1) : DeleteBook(m, id)
    \/ \E sort_by \in SortDirectives, q \in SearchQueries :
          Home(sort_by, q)
    \/ Respond

Spec == Init /\ [][Next]_vars

------------------------------------------------------------------------------
(* What the claims speak of *)

\* the last request was a listing
Listed == req.route = "home"

\* the filter step, the sort step of the last listing ran to its end
FilterDone == Listed /\ outcome # "filter raised"
SortDone == FilterDone /\ outcome # "sort raised"

\* s, lower-cased, occurs in the lower-cased title of the book or in the
\* lower-cased name of its linked author
Occurs(q, book) ==
    \/ Contains(Lower(q), Lower(book.title))
    \/ \E i \in 1..Len(authors) :
          /\ authors[i].id = book.author_id
          /\ Contains(Lower(q), Lower(authors[i].name))

\* a <= b in code point order
StrLeq(a, b) == a = b \/ StrLess(a, b)

\* out holds the items of in, in non-decreasing order of their keys, items
\* of equal keys in the order they have in in
StablySorted(out, in, Key(_)) ==
    /\ Len(out) = Len(in)
    /\ \E p \in [1..Len(in) -> 1..Len(in)] :
          /\ \A i, j \in 1..Len(in) : i # j => p[i] # p[j]
          /\ \A i \in 1..Len(in) : out[i] = in[p[i]]
          /\ \A i, j \in 1..Len(in) :
                i < j => /\ StrLeq(Key(out[i]), Key(out[j]))
                         /\ Key(out[i]) = Key(out[j]) => p[i] < p[j]

AuthorName(book) ==
    IF BookAuthor(book, authors) = <<>> THEN <<>>
    ELSE BookAuthor(book, authors)[1].name

\* the view row carries the book's title, isbn, publication_year and author
Carries(entry, book) ==
    /\ entry.title = book.title
    /\ entry.isbn = book.isbn
    /\ entry.publication_year = book.publication_year
    /\ entry.author_name = BookAuthor(book, authors)

\* the lookup answered Responses[r] failed: no response, a status other
\* than 200, or a body that is no JSON
LookupFailed(r) ==
    \/ Responses[r].raised
    \/ Responses[r].status_code # 200
    \/ ~Responses[r].valid

------------------------------------------------------------------------------
(* The claims *)

\* C1: whatever books the store holds and whatever the search string s,
\* a listing retains exactly the books in which s occurs (lower-cased, in
\* the title or in the name of the linked author), and retains every book
\* of the store, in store order, when s is absent or empty.
C1_FilterRetainsMatches ==
    Listed =>
      /\ FilterDone
      /\ filtered = IF Truthy(req.search_query)
                    THEN SelectSeq(books,
                            LAMBDA b : Occurs(req.search_query.val, b))
                    ELSE books

\* C2: under the directive 'title' (under 'author') the books that are
\* left after the filter are listed as a permutation of them that is
\* non-decreasing by title (by the name of the linked author), books of
\* equal keys in store order.
C2_SortedStably ==
    (FilterDone /\ req.sort_by.some /\ req.sort_by.val \in {"title", "author"})
    =>
      /\ SortDone
      /\ IF req.sort_by.val = "title"
         THEN StablySorted(sorted, filtered, LAMBDA b : b.title)
         ELSE /\ \A i \in 1..Len(filtered) :
                    BookAuthor(filtered[i], authors) # <<>>
              /\ StablySorted(sorted, filtered, AuthorName)
      /\ outcome = "rendered" =>
            /\ Len(books_data) = Len(sorted)
            /\ \A i \in 1..Len(sorted) : Carries(books_data[i], sorted[i])

\* C3: whatever the lookups of a listing are answered (another status than
\* 200, no answer at all, a body that is no JSON), the listing is rendered,
\* each book that was to be listed is in it with its title, isbn,
\* publication_year and author, and the cover_image of a book whose lookup
\* failed is the empty string.
C3_LookupFailureAbsorbed ==
    SortDone =>
      /\ outcome = "rendered"
      /\ Len(books_data) = Len(sorted)
      /\ Len(calls) = Len(sorted)
      /\ \A i \in 1..Len(sorted) :
            /\ Carries(books_data[i], sorted[i])
            /\ LookupFailed(calls[i].response) =>
                  books_data[i].cover_image = Str("")

\* C4: the cover_image of every row of a rendered listing is a string,
\* never None, whatever the lookup was answered.
C4_CoverImageIsString ==
    (Listed /\ outcome = "rendered") =>
      \A i \in 1..Len(books_data) : books_data[i].cover_image.t = "str"

\* C5: a request to /book/<book_id>/delete for the id of a book in the
\* store removes that book and nothing else.
C5_DeleteRemovesBook ==
    [][(req'.route = "delete_book" /\ QueryGet(books, req'.book_id) # <<>>)
        => /\ books' = SelectSeq(books, LAMBDA b : b.id # req'.book_id)
           /\ authors' = authors]_vars

\* C6: every book in the store has the author_id of an author in the store.
C6_ReferentialIntegrity ==
    \A i \in 1..Len(books) : \E j \in 1..Len(authors) :
        authors[j].id = books[i].author_id

\* C7: every author ever created is in the store, and every author and
\* every book in the store is as it was created.
C7_NothingLostOrMutated ==
    /\ \A a \in everAuthors : \E i \in 1..Len(authors) : authors[i] = a
    /\ \A i \in 1..Len(authors) : authors[i] \in everAuthors
    /\ \A i \in 1..Len(books) : books[i] \in everBooks

\* C7's case: authors and books were created, and requests of each other
\* kind have been handled since
C7_Witness ==
    /\ Len(authors) = MaxAuthors
    /\ Len(books) = MaxBooks
    /\ req.route = "delete_book"
    /\ req.method = "GET"
    /\ outcome = "rendered"

\* C8: a listing issues one lookup for each book that is left after the
\* filter, none for another book, and leaves the tables as they are.
C8_OneLookupPerBook ==
    [][req'.route = "home" =>
        /\ authors' = authors
        /\ books' = books
        /\ outcome' # "filter raised" =>
              /\ Len(calls') = Len(filtered')
              /\ \E p \in [1..Len(calls') -> 1..Len(calls')] :
                    /\ \A i, j \in 1..Len(calls') : i # j => p[i] # p[j]
                    /\ \A i \in 1..Len(calls') :
                          calls'[i].isbn = filtered'[p[i]].isbn]_vars

\* C9: the listing has one row for each book that is left after the filter,
\* in the order filter and sort gave them, each with the fields of its
\* book, and the lookups were issued in that order, whatever they were
\* answered.
C9_RowsInSortOrder ==
    SortDone =>
      /\ outcome = "rendered"
      /\ Len(books_data) = Len(sorted)
      /\ \A i \in 1..Len(sorted) : Carries(books_data[i], sorted[i])
      /\ calls = [i \in 1..Len(sorted) |->
                    [isbn |-> sorted[i].isbn, response |-> calls[i].response]]

\* C10: under a directive other than 'title' and 'author', or none, the
\* listing raises no error and lists the books that are left after the
\* filter in store order.
C10_OtherDirectiveNoOp ==
    (Listed /\ ~(req.sort_by.some /\ req.sort_by.val \in {"title", "author"}))
    =>
      /\ outcome = "rendered"
      /\ sorted = filtered
      /\ Len(books_data) = Len(filtered)
      /\ \A i \in 1..Len(filtered) : Carries(books_data[i], filtered[i])

------------------------------------------------------------------------------
(* What does hold of the listing: each step is right when it runs to its  *)
(* end.  C1, C2, C8, C9 and C10 fail on the listings that raise.           *)

FilterRightWhenDone ==
    FilterDone =>
      filtered = IF Truthy(req.search_query)
                 THEN SelectSeq(books,
                         LAMBDA b : Occurs(req.search_query.val, b))
                 ELSE books

SortRightWhenDone ==
    SortDone =>
      IF req.sort_by.some /\ req.sort_by.val = "title"
      THEN StablySorted(sorted, filtered, LAMBDA b : b.title)
      ELSE IF req.sort_by.some /\ req.sort_by.val = "author"
      THEN StablySorted(sorted, filtered, AuthorName)
      ELSE sorted = filtered

RowsRightWhenRendered ==
    (Listed /\ outcome = "rendered") =>
      /\ Len(books_data) = Len(sorted)
      /\ Len(calls) = Len(sorted)
      /\ \A i \in 1..Len(sorted) :
            /\ Carries(books_data[i], sorted[i])
            /\ calls[i].isbn = sorted[i].isbn
            /\ LookupFailed(calls[i].response) =>
                  books_data[i].cover_image = Str("")

====
